---- MODULE Spec2Model ----
(***************************************************************************)
(* Model of skill-runner: the skill document parser (parse_skill), the     *)
(* locator (load_skill, list_skills), the prompt renderer                  *)
(* (Skill.render_prompt), the input resolver (SkillRunner.gather_input,    *)
(* SkillRunner.resolve_inputs) and the orchestrator (SkillRunner.run).     *)
(*                                                                         *)
(* Text is a sequence of one-character strings.  A metadata block whose    *)
(* YAML text is not spelled out character by character is one token of     *)
(* YamlTokens; yaml_safe_load gives the tree that text loads to.           *)
(***************************************************************************)
EXTENDS Integers, Sequences, FiniteSets, TLC

VARIABLES
    \* Skill.render_prompt called on its own
    template, rinputs, rendered, rpc,
    \* parse_skill called on its own
    content, parsed, ppc,
    \* the filesystem seen by load_skill / list_skills, and their last call
    fs, lop, lres,
    \* one SkillRunner.run invocation on a SkillRunner with search_paths
    search_paths, pc, skill_name, inputs, stdin, skill, provided, bound, idx, resolved,
    run_resolved, executed, exc, prompt, remote_calls, result,
    \* whether run's local `provided` is the very dict object the caller passed
    aliased

rvars == <<template, rinputs, rendered, rpc>>
pvars == <<content, parsed, ppc>>
lvars == <<fs, lop, lres>>
runvars == <<search_paths, pc, skill_name, inputs, stdin, skill, provided, bound, idx,
             resolved, run_resolved, executed, exc, prompt, remote_calls,
             result, aliased>>
vars == <<rvars, pvars, lvars, runvars>>

----------------------------------------------------------------------------
(* Bounds *)

\* number of pieces a template is concatenated from
MaxPieces == 3
\* number of pieces a document handed to parse_skill is concatenated from
MaxDocPieces == 4
\* number of entries of the mapping handed to render_prompt
MaxEntries == 2
\* number of files in the filesystem
MaxFiles == 3
\* length of the list of extra search paths
MaxPaths == 2

----------------------------------------------------------------------------
(* Text helpers: Python str operations on sequences of characters *)

\* s[i:] for 1-based i
Drop(s, n) == SubSeq(s, n + 1, Len(s))

\* s[:n]
Take(s, n) == SubSeq(s, 1, n)

\* str.startswith
startswith(s, p) == Len(p) <= Len(s) /\ Take(s, Len(p)) = p

\* str.find: 1-based index of the first occurrence of p in s, 0 if none
find(s, p) ==
    LET hits == {i \in 1..(Len(s) - Len(p) + 1) : SubSeq(s, i, i + Len(p) - 1) = p}
    IN IF hits = {} THEN 0 ELSE CHOOSE i \in hits : \A j \in hits : i <= j

\* str.replace(old, new) for a non-empty old: leftmost, non-overlapping
RECURSIVE replace(_, _, _)
replace(s, old, new) ==
    IF Len(s) < Len(old) THEN s
    ELSE IF startswith(s, old) THEN new \o replace(Drop(s, Len(old)), old, new)
    ELSE <<Head(s)>> \o replace(Tail(s), old, new)

\* the characters str.strip removes
Whitespace == {" ", "\n"}

RECURSIVE lstrip(_)
lstrip(s) == IF s # <<>> /\ Head(s) \in Whitespace THEN lstrip(Tail(s)) ELSE s

RECURSIVE rstrip(_)
rstrip(s) ==
    IF s # <<>> /\ s[Len(s)] \in Whitespace THEN rstrip(Take(s, Len(s) - 1)) ELSE s

\* str.strip
strip(s) == rstrip(lstrip(s))

\* concatenation of a sequence of texts
RECURSIVE Concat(_)
Concat(ss) == IF ss = <<>> THEN <<>> ELSE Head(ss) \o Concat(Tail(ss))

\* all sequences over S of length at most n
SeqsUpTo(S, n) == UNION {[1..k -> S] : k \in 0..n}

----------------------------------------------------------------------------
(* Skill.render_prompt *)

\* f"{{{{{key}}}}}": the placeholder {{key}}
Placeholder(key) == <<"{", "{", key, "}", "}">>

\* the loop of render_prompt over inputs.items(), a sequence of <<key, value>>
RECURSIVE render_prompt(_, _)
render_prompt(p, items) ==
    IF items = <<>> THEN p
    ELSE render_prompt(replace(p, Placeholder(Head(items)[1]), Head(items)[2]),
                       Tail(items))

\* input names used in the model
Names == {"a", "b"}

\* pieces of text templates and values are built from
TextPieces == {Placeholder("a"), Placeholder("b"), <<"x">>, <<"{">>}

Templates == {Concat(ps) : ps \in SeqsUpTo(TextPieces, MaxPieces)}

Values == {<<>>, <<"v">>, Placeholder("a"), Placeholder("b")}

\* the mappings: sequences of <<key, value>> with distinct keys (a dict)
ItemLists ==
    {it \in SeqsUpTo(Names \X Values, MaxEntries) :
        \A i, j \in 1..Len(it) : it[i][1] = it[j][1] => i = j}

----------------------------------------------------------------------------
(* YAML trees: what yaml.safe_load returns *)

VNull == [t |-> "null"]
VStr(s) == [t |-> "str", s |-> s]
VBool(b) == [t |-> "bool", b |-> b]
\* a non-empty YAML sequence
VList == [t |-> "list"]
\* a mapping: the sequence of its <<key, value>> pairs in document order
VMap(m) == [t |-> "map", m |-> m]

\* Python truthiness of a loaded value
Truthy(v) ==
    CASE v.t = "null" -> FALSE
      [] v.t = "str"  -> v.s # ""
      [] v.t = "bool" -> v.b
      [] v.t = "list" -> TRUE
      [] v.t = "map"  -> v.m # <<>>

\* str(v)
str(v) ==
    CASE v.t = "null" -> "None"
      [] v.t = "str"  -> v.s
      [] v.t = "bool" -> IF v.b THEN "True" ELSE "False"
      [] v.t = "list" -> "[...]"
      [] v.t = "map"  -> "{...}"

\* key in d, for the pairs m of a mapping
HasKey(m, key) == \E i \in 1..Len(m) : m[i][1] = key

\* d.get(key, default), for the pairs m of a mapping
Get(m, key, default) ==
    IF HasKey(m, key)
    THEN m[CHOOSE i \in 1..Len(m) : m[i][1] = key][2]
    ELSE default

\* The metadata blocks of the model.  Each token is one block of YAML lines:
\*   Y_ok        name: greet / description: hi / inputs: {a: {required: true,
\*               command: c1}, b: {required: false}} / output: {format: json}
\*   Y_scalars   inputs: {a: the thing} / output: markdown
\*   Y_unknown   inputs: {a: {bogus: yes}}            (an unknown field)
\*   Y_null      # only a comment                     (loads to None)
\*   Y_bad       name: [                              (not parsable)
\*   Y_inputs    inputs:                              (inputs is null)
\*   Y_inlist    inputs: [a, b]                       (inputs is a sequence)
\*   Y_intype    inputs: {a: {required: [1]}}         (wrongly typed field)
\*   Y_outtype   output: {format: [1]}                (wrongly typed field)
\*   Y_one_cmd   inputs: {a: {command: c1}}
\*   Y_one_opt   inputs: {a: {required: false}}
\*   Y_two_cmd   inputs: {a: {command: c1}, b: {command: c2, required: false}}
\*   Y_cmd_req   inputs: {a: {command: c1}, b: {}}
\*   Y_req_cmd   inputs: {a: {}, b: {command: c2}}
\*   Y_two_req   inputs: {a: {}, b: {}}
\*   Y_empty_cmd inputs: {a: {command: "", required: false}}
ParseTokens ==
    {"Y_ok", "Y_scalars", "Y_unknown", "Y_null", "Y_bad", "Y_inputs",
     "Y_inlist", "Y_intype", "Y_outtype"}

RunTokens ==
    {"Y_ok", "Y_scalars", "Y_null", "Y_one_cmd", "Y_one_opt", "Y_two_cmd",
     "Y_cmd_req", "Y_req_cmd", "Y_two_req", "Y_empty_cmd"}

YamlTokens == ParseTokens \cup RunTokens

\* the tree of `inputs: {a: da, b: db}`
TwoInputs(da, db) ==
    VMap(<< <<"inputs", VMap(<< <<"a", VMap(da)>>, <<"b", VMap(db)>> >>)>> >>)

\* the tree of `inputs: {a: da}`
OneInput(da) == VMap(<< <<"inputs", VMap(<< <<"a", VMap(da)>> >>)>> >>)

YamlTree(tok) ==
    CASE tok = "Y_ok" ->
            VMap(<< <<"name", VStr("greet")>>,
                    <<"description", VStr("hi")>>,
                    <<"inputs",
                      VMap(<< <<"a", VMap(<< <<"required", VBool(TRUE)>>,
                                             <<"command", VStr("c1")>> >>)>>,
                              <<"b", VMap(<< <<"required", VBool(FALSE)>> >>)>> >>)>>,
                    <<"output", VMap(<< <<"format", VStr("json")>> >>)>> >>)
      [] tok = "Y_scalars" ->
            VMap(<< <<"inputs", VMap(<< <<"a", VStr("the thing")>> >>)>>,
                    <<"output", VStr("markdown")>> >>)
      [] tok = "Y_unknown" ->
            VMap(<< <<"inputs",
                      VMap(<< <<"a", VMap(<< <<"bogus", VBool(TRUE)>> >>)>> >>)>> >>)
      [] tok = "Y_null" -> VNull
      [] tok = "Y_inputs" -> VMap(<< <<"inputs", VNull>> >>)
      [] tok = "Y_inlist" -> VMap(<< <<"inputs", VList>> >>)
      [] tok = "Y_intype" ->
            VMap(<< <<"inputs",
                      VMap(<< <<"a", VMap(<< <<"required", VList>> >>)>> >>)>> >>)
      [] tok = "Y_outtype" ->
            VMap(<< <<"output", VMap(<< <<"format", VList>> >>)>> >>)
      [] tok = "Y_one_cmd" -> OneInput(<< <<"command", VStr("c1")>> >>)
      [] tok = "Y_one_opt" -> OneInput(<< <<"required", VBool(FALSE)>> >>)
      [] tok = "Y_two_cmd" ->
            TwoInputs(<< <<"command", VStr("c1")>> >>,
                      << <<"command", VStr("c2")>>, <<"required", VBool(FALSE)>> >>)
      [] tok = "Y_cmd_req" -> TwoInputs(<< <<"command", VStr("c1")>> >>, <<>>)
      [] tok = "Y_req_cmd" -> TwoInputs(<<>>, << <<"command", VStr("c2")>> >>)
      [] tok = "Y_two_req" -> TwoInputs(<<>>, <<>>)
      [] tok = "Y_empty_cmd" ->
            OneInput(<< <<"command", VStr("")>>, <<"required", VBool(FALSE)>> >>)
      [] OTHER -> VNull

\* yaml.safe_load(frontmatter) for a stripped, non-empty frontmatter:
\* [err |-> TRUE] when it raises YAMLError, else the loaded tree.  A block
\* followed or preceded by stray text is not parsable; text without any
\* block is a plain scalar.
yaml_safe_load(frontmatter) ==
    IF \E i \in 1..Len(frontmatter) : frontmatter[i] \in YamlTokens
    THEN IF Len(frontmatter) = 1 /\ frontmatter[1] # "Y_bad"
         THEN [err |-> FALSE, v |-> YamlTree(frontmatter[1])]
         ELSE [err |-> TRUE, v |-> VNull]
    ELSE [err |-> FALSE, v |-> VStr("plain")]

----------------------------------------------------------------------------
(* The schema models: SkillInput, SkillOutput, Skill *)

\* SkillInput(**d): field by field, unknown keys ignored, defaults for the
\* absent ones; ok is FALSE when validation raises
SkillInput(d) ==
    LET command == Get(d, "command", VNull)
        description == Get(d, "description", VStr(""))
        required == Get(d, "required", VBool(TRUE))
    IN  [ok |-> /\ command.t \in {"str", "null"}
                /\ description.t = "str"
                /\ required.t = "bool",
         command |-> IF command.t = "str" THEN command.s ELSE "None",
         description |-> IF description.t = "str" THEN description.s ELSE "",
         required |-> IF required.t = "bool" THEN required.b ELSE TRUE]

\* SkillOutput(**d)
SkillOutput(d) ==
    LET format == Get(d, "format", VStr("text"))
    IN  [ok |-> format.t = "str",
         format |-> IF format.t = "str" THEN format.s ELSE "text"]

\* the value of an absent command (None); "" is the empty command text
NoCommand == "None"

\* the result of parse_skill / load_skill when it raises e
Raised(e) == [exc |-> e, name |-> "", description |-> "", inputs |-> <<>>,
              format |-> "", prompt |-> <<>>]

----------------------------------------------------------------------------
(* parse_skill *)

\* the frontmatter delimiter "---"
Delim == <<"-", "-", "-">>

\* content.split("---", 2) has at least three parts: content starts with the
\* delimiter and a second delimiter follows
HasFrontmatter(c) == startswith(c, Delim) /\ find(Drop(c, Len(Delim)), Delim) > 0

\* parts[1] of content.split("---", 2)
Part1(c) ==
    LET rest == Drop(c, Len(Delim))
    IN  Take(rest, find(rest, Delim) - 1)

\* parts[2] of content.split("---", 2)
Part2(c) ==
    LET rest == Drop(c, Len(Delim))
    IN  Drop(rest, find(rest, Delim) - 1 + Len(Delim))

\* the body parse_skill stores as the prompt
Body(c) == IF HasFrontmatter(c) THEN strip(Part2(c)) ELSE c

\* the loop `for inp_name, inp_def in raw_inputs.items()`: the declared
\* inputs in document order
RECURSIVE ConvertInputs(_)
ConvertInputs(m) ==
    IF m = <<>> THEN <<>>
    ELSE LET inp_name == Head(m)[1]
             inp_def == Head(m)[2]
             si == IF inp_def.t = "map" THEN SkillInput(inp_def.m)
                   ELSE SkillInput(<< <<"description", VStr(str(inp_def))>> >>)
         IN  <<[name |-> inp_name, ok |-> si.ok, command |-> si.command,
                description |-> si.description, required |-> si.required]>>
             \o ConvertInputs(Tail(m))

\* parse_skill(content, name): the Skill, or the exception it raises
parse_skill(c, name) ==
    LET frontmatter == IF HasFrontmatter(c) THEN strip(Part1(c)) ELSE <<>>
        body == Body(c)
        loaded == yaml_safe_load(frontmatter)
        meta == IF frontmatter # <<>> /\ Truthy(loaded.v) THEN loaded.v ELSE VMap(<<>>)
        raw_inputs == Get(meta.m, "inputs", VMap(<<>>))
        conv == ConvertInputs(raw_inputs.m)
        raw_output == Get(meta.m, "output", VMap(<<>>))
        output == IF raw_output.t = "map" THEN SkillOutput(raw_output.m)
                  ELSE SkillOutput(<< <<"format",
                         VStr(IF Truthy(raw_output) THEN str(raw_output) ELSE "text")>> >>)
        mname == Get(meta.m, "name", VStr(name))
        mdesc == Get(meta.m, "description", VStr(""))
    IN  IF frontmatter # <<>> /\ loaded.err THEN Raised("YAMLError")
        ELSE IF meta.t # "map" THEN Raised("AttributeError")
        ELSE IF raw_inputs.t # "map" THEN Raised("AttributeError")
        ELSE IF \E i \in 1..Len(conv) : ~conv[i].ok THEN Raised("ValidationError")
        ELSE IF ~output.ok THEN Raised("ValidationError")
        ELSE IF mname.t # "str" \/ mdesc.t # "str" THEN Raised("ValidationError")
        ELSE [exc |-> "none", name |-> mname.s, description |-> mdesc.s,
              inputs |-> [i \in 1..Len(conv) |->
                            [name |-> conv[i].name, command |-> conv[i].command,
                             description |-> conv[i].description,
                             required |-> conv[i].required]],
              format |-> output.format, prompt |-> body]

\* pieces the documents of the parser model are concatenated from
DocPieces == {Delim, <<" ">>, <<"x">>} \cup {<<tk>> : tk \in ParseTokens}

\* the documents handed to parse_skill: at most one metadata block each
Contents ==
    {c \in {Concat(ps) : ps \in SeqsUpTo(DocPieces, MaxDocPieces)} :
        Cardinality({i \in 1..Len(c) : c[i] \in YamlTokens}) <= 1}

----------------------------------------------------------------------------
(* The filesystem and the locator: load_skill, list_skills *)

\* Path.cwd()/.claude/skills and Path.home()/.claude/skills
ProjectDir == "proj"
GlobalDir == "home"

\* the directories callers pass as extra search paths
ExtraDirs == {"e1", "e2"}

\* skill names on disk
SkillNames == {"x", "y"}

\* base / name / "SKILL.md"
SkillFile(base, name) == <<base, name, "SKILL.md">>

\* base / f"{name}.md"
FlatFile(base, name) == <<base, name, ".md">>

\* every file the model can hold
AllPaths ==
    {SkillFile(d, n) : d \in {ProjectDir, GlobalDir} \cup ExtraDirs, n \in SkillNames}
    \cup {FlatFile(d, n) : d \in ExtraDirs, n \in SkillNames}

\* the documents on disk: a well-formed one and one parse_skill raises on
DocOk == Delim \o <<"Y_ok">> \o Delim \o <<"x">>
DocBad == Delim \o <<"Y_inputs">> \o Delim \o <<"x">>
DiskDocs == {DocOk, DocBad}

\* a filesystem: a function from the files that exist to their text
FileSystems(paths, docs, n) ==
    UNION {[S -> docs] : S \in {T \in SUBSET paths : Cardinality(T) <= n}}

\* path.exists() for a file
exists(p) == p \in DOMAIN fs

\* path.read_text()
read_text(p) == fs[p]

\* paths_to_check with the flat <p>/<name>.md candidates ahead of the
\* <p>/<name>/SKILL.md ones
paths_to_check_flat_first(name, sp) ==
    <<SkillFile(ProjectDir, name), SkillFile(GlobalDir, name)>>
    \o [i \in 1..Len(sp) |-> FlatFile(sp[i], name)]
    \o [i \in 1..Len(sp) |-> SkillFile(sp[i], name)]

\* the list paths_to_check of load_skill
paths_to_check(name, sp) ==
    <<SkillFile(ProjectDir, name), SkillFile(GlobalDir, name)>>
    \o [i \in 1..Len(sp) |-> SkillFile(sp[i], name)]
    \o [i \in 1..Len(sp) |-> FlatFile(sp[i], name)]

NoPath == <<"", "", "">>

\* load_skill(name, search_paths): the first existing candidate is read and
\* parsed; otherwise FileNotFoundError with the searched list in its message
load_skill(name, sp) ==
    LET cands == paths_to_check(name, sp)
        hits == {i \in 1..Len(cands) : exists(cands[i])}
        first == CHOOSE i \in hits : \A j \in hits : i <= j
    IN  IF hits # {}
        THEN [skill |-> parse_skill(read_text(cands[first]), name),
              path |-> cands[first], searched |-> <<>>]
        ELSE [skill |-> Raised("FileNotFoundError"),
              path |-> NoPath, searched |-> cands]

\* the entries of base_path.iterdir() that are directories, in the order ord
SubDirs(base, ord) ==
    SelectSeq(ord, LAMBDA n : \E p \in DOMAIN fs : p[1] = base /\ p[2] = n /\ p[3] = "SKILL.md")

\* base_path.exists()
DirExists(base) == \E p \in DOMAIN fs : p[1] = base

\* the inner loop of list_skills over one base path; acc is
\* [skills, seen]
RECURSIVE ScanDir(_, _, _)
ScanDir(base, dirs, acc) ==
    IF dirs = <<>> THEN acc
    ELSE LET skill_dir == Head(dirs)
             skill_file == SkillFile(base, skill_dir)
             sk == parse_skill(read_text(skill_file), skill_dir)
         IN  IF exists(skill_file) /\ skill_dir \notin acc.seen
             THEN ScanDir(base, Tail(dirs),
                    [seen |-> acc.seen \cup {skill_dir},
                     skills |->
                        IF sk.exc = "none"
                        THEN Append(acc.skills,
                               [name |-> sk.name, description |-> sk.description,
                                path |-> skill_file,
                                inputs |-> [i \in 1..Len(sk.inputs) |-> sk.inputs[i].name]])
                        ELSE acc.skills])
             ELSE ScanDir(base, Tail(dirs), acc)

\* the outer loop of list_skills over all_paths
RECURSIVE ScanAll(_, _, _)
ScanAll(bases, ord, acc) ==
    IF bases = <<>> THEN acc
    ELSE IF ~DirExists(Head(bases)) THEN ScanAll(Tail(bases), ord, acc)
    ELSE ScanAll(Tail(bases), ord, ScanDir(Head(bases), SubDirs(Head(bases), ord), acc))

\* list_skills(search_paths); ord is the order iterdir() yields names in
list_skills(sp, ord) ==
    ScanAll(<<ProjectDir, GlobalDir>> \o sp, ord, [seen |-> {}, skills |-> <<>>]).skills

\* the orders iterdir() can yield the names in
DirOrders == {o \in [1..Cardinality(SkillNames) -> SkillNames] :
                \A i, j \in DOMAIN o : o[i] = o[j] => i = j}

\* the lists of extra search paths
SearchPaths == SeqsUpTo(ExtraDirs, MaxPaths)

----------------------------------------------------------------------------
(* The input resolver and the orchestrator: SkillRunner *)

\* a mapping name -> text (a dict): a function on the names it holds
EmptyDict == <<>>

\* d[k] = v
SetItem(d, k, v) == [n \in DOMAIN d \cup {k} |-> IF n = k THEN v ELSE d[n]]

\* the inputs argument of run: None or a dict
NoneArg == [none |-> TRUE, d |-> EmptyDict]
DictArg(d) == [none |-> FALSE, d |-> d]

\* the stdin argument of run: None or a text
NoStdin == [none |-> TRUE, s |-> <<>>]
StdinText(s) == [none |-> FALSE, s |-> s]

\* the stdin shortcut taken without looking at provided
ShouldBindStdin_any_provided(sin, sk, prov) ==
    /\ ~sin.none /\ sin.s # <<>>
    /\ Len(sk.inputs) = 1

\* `inputs or {}` keeping the caller's dict also when it is empty, as
\* `inputs if inputs is not None else {}` would
ProvidedOf_none_only(inp) ==
    IF inp.none
    THEN [alias |-> FALSE, d |-> EmptyDict]
    ELSE [alias |-> TRUE, d |-> inp.d]

\* `provided = inputs or {}`: a falsy argument (None or an empty dict) gives
\* a new empty dict, any other argument gives the caller's dict object itself
ProvidedOf(inp) ==
    IF inp.none \/ DOMAIN inp.d = {}
    THEN [alias |-> FALSE, d |-> EmptyDict]
    ELSE [alias |-> TRUE, d |-> inp.d]

\* `if stdin and len(skill.inputs) == 1 and not provided`
ShouldBindStdin(sin, sk, prov) ==
    /\ ~sin.none /\ sin.s # <<>>
    /\ Len(sk.inputs) = 1
    /\ DOMAIN prov = {}

\* `elif input_def.command:`: a command is declared and its text is not empty
HasCommand(input_def) == input_def.command \notin {NoCommand, ""}

\* gather_input raising whenever the status is non-zero or stderr is written
gather_input_either(command, returncode, stdout, stderr) ==
    IF returncode # 0 \/ stderr # <<>>
    THEN [raised |-> TRUE, command |-> command, stderr |-> stderr, value |-> <<>>]
    ELSE [raised |-> FALSE, command |-> "", stderr |-> <<>>, value |-> stdout]

\* gather_input once subprocess.run has ended with (returncode, stdout, stderr)
gather_input(command, returncode, stdout, stderr) ==
    IF returncode # 0 /\ stderr # <<>>
    THEN [raised |-> TRUE, command |-> command, stderr |-> stderr, value |-> <<>>]
    ELSE [raised |-> FALSE, command |-> "", stderr |-> <<>>, value |-> stdout]

\* the loop going on to the next input after an exception
AfterInput_continue(raised, i) == [pc |-> "resolve", idx |-> i + 1]

\* where resolve_inputs goes after the body for input i: a raise leaves the
\* loop and run, otherwise the loop goes on with the next input
AfterInput(raised, i) ==
    IF raised THEN [pc |-> "raised", idx |-> i] ELSE [pc |-> "resolve", idx |-> i + 1]

\* the loop body with the command tried before the provided value
ResolveBranch_command_first(name, input_def, prov) ==
    IF HasCommand(input_def) THEN "gather"
    ELSE IF name \in DOMAIN prov THEN "provided"
    ELSE IF input_def.required THEN "missing"
    ELSE "omit"

\* the loop body without the `elif input_def.required` branch
ResolveBranch_required_ignored(name, input_def, prov) ==
    IF name \in DOMAIN prov THEN "provided"
    ELSE IF HasCommand(input_def) THEN "gather"
    ELSE "omit"

\* which branch of the loop body of resolve_inputs an input takes
ResolveBranch(name, input_def, prov) ==
    IF name \in DOMAIN prov THEN "provided"
    ELSE IF HasCommand(input_def) THEN "gather"
    ELSE IF input_def.required THEN "missing"
    ELSE "omit"

\* exceptions: the type and what the message carries
NoExc == [type |-> "none", name |-> "", command |-> "", stderr |-> <<>>, searched |-> <<>>]
Exc(type) == [NoExc EXCEPT !.type = type]

\* what a command can end with
ReturnCodes == {0, 1}
Outputs == {<<>>, <<"o">>}
Errors == {<<>>, <<"e">>}

\* the arguments of run
ProvidedKeys == {"a", "b", "z"}
ProvidedValues == {<<>>, <<"v">>}
ProvidedDicts == UNION {[S -> ProvidedValues] : S \in SUBSET ProvidedKeys}
InputArgs == {NoneArg} \cup {DictArg(d) : d \in ProvidedDicts}
StdinArgs == {NoStdin, StdinText(<<>>), StdinText(<<"s">>)}

\* the skill documents of the run model
RunBody == Placeholder("a") \o <<" ">> \o Placeholder("b")
RunDocs == {Delim \o <<tk>> \o Delim \o RunBody : tk \in RunTokens} \cup {RunBody, DocBad}

\* the places the run model keeps its document in
RunPaths == {SkillFile(ProjectDir, "x"), FlatFile("e1", "x")}

\* what the remote collaborator can answer
Replies == {<<"r">>, <<" ", "r", " ">>}

NotReturned == [ret |-> FALSE, items |-> <<>>]

----------------------------------------------------------------------------
(* States of the parts that take no step in a specification *)

NoLoad == [skill |-> Raised("unset"), path |-> NoPath, searched |-> <<>>]
NoCall == [op |-> "none", name |-> "", sp |-> <<>>]

RenderIdle == template = <<>> /\ rinputs = <<>> /\ rendered = <<>> /\ rpc = "idle"
ParseIdle == content = <<>> /\ parsed = Raised("unset") /\ ppc = "idle"
LocateIdle == lop = NoCall /\ lres = [load |-> NoLoad, list |-> <<>>]
RunIdle ==
    /\ search_paths = <<>> /\ pc = "idle" /\ skill_name = "" /\ inputs = NoneArg
    /\ aliased = FALSE
    /\ stdin = NoStdin /\ skill = Raised("unset") /\ provided = EmptyDict
    /\ bound = FALSE /\ idx = 0 /\ resolved = <<>> /\ run_resolved = NotReturned
    /\ executed = <<>> /\ exc = NoExc /\ prompt = <<>> /\ remote_calls = 0
    /\ result = <<>>

----------------------------------------------------------------------------
(* Skill.render_prompt as an operation *)

InitRender ==
    /\ template \in Templates
    /\ rinputs \in ItemLists
    /\ rendered = <<>>
    /\ rpc = "ready"
    /\ ParseIdle /\ LocateIdle /\ RunIdle /\ fs = <<>>

Render ==
    /\ rpc = "ready"
    /\ rendered' = render_prompt(template, rinputs)
    /\ rpc' = "done"
    /\ UNCHANGED <<template, rinputs, pvars, lvars, runvars>>

NextRender == Render

SpecRender == InitRender /\ [][NextRender]_vars

----------------------------------------------------------------------------
(* parse_skill as an operation *)

InitParse ==
    /\ content \in Contents
    /\ parsed = Raised("unset")
    /\ ppc = "ready"
    /\ RenderIdle /\ LocateIdle /\ RunIdle /\ fs = <<>>

Parse ==
    /\ ppc = "ready"
    /\ \E name \in SkillNames : parsed' = parse_skill(content, name)
    /\ ppc' = "done"
    /\ UNCHANGED <<content, rvars, lvars, runvars>>

NextParse == Parse

SpecParse == InitParse /\ [][NextParse]_vars

----------------------------------------------------------------------------
(* load_skill and list_skills as operations on a filesystem *)

InitLocate ==
    /\ fs \in FileSystems(AllPaths, DiskDocs, MaxFiles)
    /\ LocateIdle /\ RenderIdle /\ ParseIdle /\ RunIdle

LoadSkill ==
    \E name \in SkillNames, sp \in SearchPaths :
        /\ lop = NoCall
        /\ lop' = [op |-> "load", name |-> name, sp |-> sp]
        /\ lres' = [load |-> load_skill(name, sp), list |-> <<>>]
        /\ UNCHANGED <<fs, rvars, pvars, runvars>>

ListSkills ==
    \E sp \in SearchPaths, ord \in DirOrders :
        /\ lop = NoCall
        /\ lop' = [op |-> "list", name |-> "", sp |-> sp]
        /\ lres' = [load |-> NoLoad, list |-> list_skills(sp, ord)]
        /\ UNCHANGED <<fs, rvars, pvars, runvars>>

NextLocate == LoadSkill \/ ListSkills

SpecLocate == InitLocate /\ [][NextLocate]_vars

----------------------------------------------------------------------------
(* SkillRunner.run, one step per statement; resolve_inputs one step per     *)
(* declared input                                                           *)

InitRun ==
    /\ fs \in FileSystems(RunPaths, RunDocs, 1)
    /\ search_paths = <<"e1">>
    /\ skill_name = "x"
    /\ aliased = FALSE
    /\ inputs \in InputArgs
    /\ stdin \in StdinArgs
    /\ pc = "load"
    /\ skill = Raised("unset") /\ provided = EmptyDict /\ bound = FALSE
    /\ idx = 0 /\ resolved = <<>> /\ run_resolved = NotReturned
    /\ executed = <<>> /\ exc = NoExc /\ prompt = <<>> /\ remote_calls = 0
    /\ result = <<>>
    /\ RenderIdle /\ ParseIdle /\ LocateIdle

\* skill = load_skill(skill_name, self.search_paths), raising
LoadFails ==
    /\ pc = "load"
    /\ LET r == load_skill(skill_name, search_paths)
       IN  /\ r.skill.exc # "none"
           /\ exc' = [Exc(r.skill.exc) EXCEPT !.searched = r.searched]
    /\ pc' = "raised"
    /\ UNCHANGED <<fs, search_paths, skill_name, aliased, inputs, stdin, skill, provided,
                   bound, idx, resolved, run_resolved, executed, prompt,
                   remote_calls, result, rvars, pvars, lop, lres>>

\* skill = load_skill(skill_name, self.search_paths), returning
Load ==
    /\ pc = "load"
    /\ LET r == load_skill(skill_name, search_paths)
       IN  /\ r.skill.exc = "none"
           /\ skill' = r.skill
    /\ pc' = "bind"
    /\ UNCHANGED <<fs, search_paths, skill_name, aliased, inputs, stdin, provided,
                   bound, idx, resolved, run_resolved, executed, exc, prompt,
                   remote_calls, result, rvars, pvars, lop, lres>>

\* provided = inputs or {}, then the stdin shortcut, then the call of
\* resolve_inputs (resolved = {})
Bind ==
    /\ pc = "bind"
    /\ LET p == ProvidedOf(inputs)
       IN  /\ aliased' = p.alias
           /\ IF ShouldBindStdin(stdin, skill, p.d)
              THEN /\ provided' = SetItem(p.d, skill.inputs[1].name, stdin.s)
                   /\ inputs' = IF p.alias
                                THEN DictArg(SetItem(p.d, skill.inputs[1].name, stdin.s))
                                ELSE inputs
                   /\ bound' = TRUE
              ELSE /\ provided' = p.d
                   /\ inputs' = inputs
                   /\ bound' = FALSE
    /\ resolved' = <<>>
    /\ idx' = 1
    /\ pc' = "resolve"
    /\ UNCHANGED <<fs, search_paths, skill_name, stdin, skill,
                   run_resolved, executed, exc, prompt, remote_calls, result,
                   rvars, pvars, lop, lres>>

\* the loop of resolve_inputs is at a declared input
AtInput == pc = "resolve" /\ idx <= Len(skill.inputs)

\* `if name in provided: resolved[name] = provided[name]`
UseProvided ==
    /\ AtInput
    /\ ResolveBranch(skill.inputs[idx].name, skill.inputs[idx], provided) = "provided"
    /\ resolved' = Append(resolved, <<skill.inputs[idx].name,
                                      provided[skill.inputs[idx].name]>>)
    /\ idx' = idx + 1
    /\ UNCHANGED <<fs, search_paths, pc, skill_name, aliased, inputs, stdin, skill,
                   provided, bound, run_resolved, executed, exc, prompt,
                   remote_calls, result, rvars, pvars, lop, lres>>

\* `elif input_def.command: resolved[name] = self.gather_input(...)`: the
\* command runs and ends with some status, output and error text
Gather ==
    /\ AtInput
    /\ ResolveBranch(skill.inputs[idx].name, skill.inputs[idx], provided) = "gather"
    /\ \E returncode \in ReturnCodes, stdout \in Outputs, stderr \in Errors :
        LET g == gather_input(skill.inputs[idx].command, returncode, stdout, stderr)
        IN  /\ executed' = Append(executed,
                              [input |-> skill.inputs[idx].name,
                               command |-> skill.inputs[idx].command,
                               returncode |-> returncode, stdout |-> stdout,
                               stderr |-> stderr])
            /\ pc' = AfterInput(g.raised, idx).pc
            /\ idx' = AfterInput(g.raised, idx).idx
            /\ exc' = IF g.raised
                      THEN [Exc("RuntimeError") EXCEPT !.command = g.command,
                                                       !.stderr = g.stderr]
                      ELSE exc
            /\ resolved' = IF g.raised THEN resolved
                           ELSE Append(resolved, <<skill.inputs[idx].name, g.value>>)
    /\ UNCHANGED <<fs, search_paths, skill_name, aliased, inputs, stdin, skill, provided,
                   bound, run_resolved, prompt, remote_calls, result,
                   rvars, pvars, lop, lres>>

\* `elif input_def.required: raise ValueError(...)`
MissingRequired ==
    /\ AtInput
    /\ ResolveBranch(skill.inputs[idx].name, skill.inputs[idx], provided) = "missing"
    /\ pc' = AfterInput(TRUE, idx).pc
    /\ idx' = AfterInput(TRUE, idx).idx
    /\ exc' = [Exc("ValueError") EXCEPT !.name = skill.inputs[idx].name]
    /\ UNCHANGED <<fs, search_paths, skill_name, aliased, inputs, stdin, skill, provided,
                   bound, resolved, run_resolved, executed, prompt,
                   remote_calls, result, rvars, pvars, lop, lres>>

\* no branch taken: an optional input without a value is left out
OmitOptional ==
    /\ AtInput
    /\ ResolveBranch(skill.inputs[idx].name, skill.inputs[idx], provided) = "omit"
    /\ idx' = idx + 1
    /\ UNCHANGED <<fs, search_paths, pc, skill_name, aliased, inputs, stdin, skill,
                   provided, bound, resolved, run_resolved, executed, exc,
                   prompt, remote_calls, result, rvars, pvars, lop, lres>>

\* `return resolved`, assigned to run's resolved
ResolveReturn ==
    /\ pc = "resolve" /\ idx > Len(skill.inputs)
    /\ run_resolved' = [ret |-> TRUE, items |-> resolved]
    /\ pc' = "render"
    /\ UNCHANGED <<fs, search_paths, skill_name, aliased, inputs, stdin, skill, provided,
                   bound, idx, resolved, executed, exc, prompt, remote_calls,
                   result, rvars, pvars, lop, lres>>

\* prompt = skill.render_prompt(resolved)
RenderPrompt ==
    /\ pc = "render"
    /\ prompt' = render_prompt(skill.prompt, run_resolved.items)
    /\ pc' = "query"
    /\ UNCHANGED <<fs, search_paths, skill_name, aliased, inputs, stdin, skill, provided,
                   bound, idx, resolved, run_resolved, executed, exc,
                   remote_calls, result, rvars, pvars, lop, lres>>

\* return asyncio.run(self._query(prompt)): the fragments are joined and
\* stripped
Query ==
    /\ pc = "query"
    /\ remote_calls' = remote_calls + 1
    /\ \E reply \in Replies : result' = strip(reply)
    /\ pc' = "done"
    /\ UNCHANGED <<fs, search_paths, skill_name, aliased, inputs, stdin, skill, provided,
                   bound, idx, resolved, run_resolved, executed, exc, prompt,
                   rvars, pvars, lop, lres>>

\* the remote call raises
QueryFails ==
    /\ pc = "query"
    /\ remote_calls' = remote_calls + 1
    /\ exc' = Exc("UpstreamFailure")
    /\ pc' = "raised"
    /\ UNCHANGED <<fs, search_paths, skill_name, aliased, inputs, stdin, skill, provided,
                   bound, idx, resolved, run_resolved, executed, prompt, result,
                   rvars, pvars, lop, lres>>

NextRun ==
    \/ LoadFails \/ Load \/ Bind
    \/ UseProvided \/ Gather \/ MissingRequired \/ OmitOptional \/ ResolveReturn
    \/ RenderPrompt \/ Query \/ QueryFails

SpecRun == InitRun /\ [][NextRun]_vars

----------------------------------------------------------------------------
(* Claims about the locator *)

\* the k-th candidate of a lookup of name with extra paths sp, counted as the
\* documentation orders them: project, user-global, then the n
\* <p>/<name>/SKILL.md, then the n <p>/<name>.md
Candidate(name, sp, k) ==
    CASE k = 1 -> <<ProjectDir, name, "SKILL.md">>
      [] k = 2 -> <<GlobalDir, name, "SKILL.md">>
      [] k > 2 /\ k <= 2 + Len(sp) -> <<sp[k - 2], name, "SKILL.md">>
      [] OTHER -> <<sp[k - 2 - Len(sp)], name, ".md">>

\* C1: load_skill reads the existing candidate of least position in the order
\* project, user-global, <p>/<name>/SKILL.md for each extra path p,
\* <p>/<name>.md for each extra path p; when no candidate exists it raises
\* FileNotFoundError and the message lists all candidates in that order.
C1_LoadSkillOrder ==
    lop.op = "load" =>
        LET K == 1..(2 + 2 * Len(lop.sp))
            ex == {k \in K : Candidate(lop.name, lop.sp, k) \in DOMAIN fs}
        IN  IF ex = {}
            THEN /\ lres.load.skill.exc = "FileNotFoundError"
                 /\ lres.load.searched = [k \in K |-> Candidate(lop.name, lop.sp, k)]
            ELSE \E k \in ex :
                    /\ \A j \in ex : k <= j
                    /\ lres.load.path = Candidate(lop.name, lop.sp, k)
                    /\ lres.load.skill.exc # "FileNotFoundError"
                    /\ lres.load.skill.exc = "none" =>
                          lres.load.skill.prompt = Body(fs[Candidate(lop.name, lop.sp, k)])

\* C1 witness: with two different extra paths and at least two files on
\* disk, a lookup went through five candidates that do not exist and read
\* the last one, the flat file of the second extra path
C1_Witness ==
    /\ lop.op = "load"
    /\ Len(lop.sp) = 2 /\ lop.sp[1] # lop.sp[2]
    /\ lres.load.path = FlatFile(lop.sp[2], lop.name)
    /\ lres.load.skill.exc = "none"
    /\ Cardinality(DOMAIN fs) >= 2

\* the summaries of a listing whose source document is in a subdirectory n
SummariesFor(n) == {i \in 1..Len(lres.list) : lres.list[i].path[2] = n}

\* C2: when both the project-local and the user-global directory hold
\* x/SKILL.md, list_skills returns exactly one summary for x and its path is
\* the project-local document.
C2_ProjectShadowsGlobal ==
    (/\ lop.op = "list"
     /\ SkillFile(ProjectDir, "x") \in DOMAIN fs
     /\ SkillFile(GlobalDir, "x") \in DOMAIN fs)
    => /\ Cardinality(SummariesFor("x")) = 1
       /\ \A i \in SummariesFor("x") : lres.list[i].path = SkillFile(ProjectDir, "x")

----------------------------------------------------------------------------
(* Claims about the input resolver *)

\* the keys of a sequence of <<key, value>>
Keys(items) == {items[i][1] : i \in 1..Len(items)}

\* the value a sequence of <<key, value>> holds for key k
ValueOf(items, k) == items[CHOOSE i \in 1..Len(items) : items[i][1] = k][2]

\* the names a skill declares
Declared == {skill.inputs[i].name : i \in 1..Len(skill.inputs)}

\* the runs of commands made for input n
RunsFor(n) == {k \in 1..Len(executed) : executed[k].input = n}

\* C3: the mapping resolve_inputs returns holds, for each declared input n,
\* the provided value if provided has n (and n's command was not run),
\* otherwise the standard output of n's command if n declares a command,
\* otherwise nothing; it holds no name that is not declared.
C3_ResolvedMapping ==
    run_resolved.ret =>
        /\ Keys(run_resolved.items) \subseteq Declared
        /\ \A i, j \in 1..Len(run_resolved.items) :
              run_resolved.items[i][1] = run_resolved.items[j][1] => i = j
        /\ \A i \in 1..Len(skill.inputs) :
              LET n == skill.inputs[i].name
              IN  IF n \in DOMAIN provided
                  THEN /\ n \in Keys(run_resolved.items)
                       /\ ValueOf(run_resolved.items, n) = provided[n]
                       /\ RunsFor(n) = {}
                  ELSE IF HasCommand(skill.inputs[i])
                  THEN /\ n \in Keys(run_resolved.items)
                       /\ \E k \in RunsFor(n) :
                            /\ executed[k].command = skill.inputs[i].command
                            /\ ValueOf(run_resolved.items, n) = executed[k].stdout
                       /\ Cardinality(RunsFor(n)) = 1
                  ELSE n \notin Keys(run_resolved.items)

\* C3 witness: a mapping was returned for a skill whose first input has a
\* command but was provided (with the empty text), whose second input was
\* gathered, and provided also held an undeclared name
C3_Witness ==
    /\ run_resolved.ret
    /\ Len(skill.inputs) = 2
    /\ HasCommand(skill.inputs[1]) /\ HasCommand(skill.inputs[2])
    /\ DOMAIN provided = {skill.inputs[1].name, "z"}
    /\ provided[skill.inputs[1].name] = <<>>
    /\ Len(executed) = 1 /\ executed[1].stdout = <<"o">>

\* a command run ended with a non-zero status and wrote standard error
FailedRun(e) == e.returncode # 0 /\ e.stderr # <<>>

\* C4: a command run makes resolution fail with Command-Failed, carrying the
\* command text and the captured standard error, exactly if it ended with a
\* non-zero status and non-empty standard error; any other run, also one
\* with a non-zero status and empty standard error, gives its standard
\* output as the value of its input.
C4_CommandFailedIff ==
    /\ \A k \in 1..Len(executed) :
          IF FailedRun(executed[k])
          THEN /\ k = Len(executed)
               /\ pc = "raised"
               /\ exc.type = "RuntimeError"
               /\ exc.command = executed[k].command
               /\ exc.stderr = executed[k].stderr
               /\ executed[k].input \notin Keys(resolved)
          ELSE /\ executed[k].input \in Keys(resolved)
               /\ ValueOf(resolved, executed[k].input) = executed[k].stdout
    /\ exc.type = "RuntimeError" =>
          executed # <<>> /\ FailedRun(executed[Len(executed)])

\* C4 witness: a command ended with status 1, empty standard error and
\* empty standard output, and the run went on to its end
C4_Witness ==
    /\ pc = "done"
    /\ \E k \in 1..Len(executed) :
          /\ executed[k].returncode = 1
          /\ executed[k].stderr = <<>>
          /\ executed[k].stdout = <<>>
          /\ ValueOf(run_resolved.items, executed[k].input) = <<>>

\* input i of the skill is required, not provided and has no command
Unmet(i) ==
    /\ skill.inputs[i].required
    /\ skill.inputs[i].name \notin DOMAIN provided
    /\ ~HasCommand(skill.inputs[i])

\* resolve_inputs was called and has returned or raised
ResolveEnded ==
    \/ pc \in {"render", "query", "done"}
    \/ pc = "raised" /\ exc.type \in {"ValueError", "RuntimeError", "UpstreamFailure"}

\* C5 as stated: for every unmet required input n, resolve_inputs raises
\* Missing-Required-Input naming n.
C5_Original ==
    ResolveEnded =>
        \A i \in 1..Len(skill.inputs) :
            Unmet(i) => exc.type = "ValueError" /\ exc.name = skill.inputs[i].name

\* C5 amended: if some declared input is required, not provided and has no
\* command, resolve_inputs returns no mapping: it raises
\* Missing-Required-Input naming the first such input in declaration order,
\* unless the command of an input declared before that one fails, in which
\* case it raises Command-Failed for that command.
C5_FirstUnmetRaises ==
    (ResolveEnded /\ \E i \in 1..Len(skill.inputs) : Unmet(i)) =>
        LET first == CHOOSE i \in 1..Len(skill.inputs) :
                        Unmet(i) /\ \A j \in 1..Len(skill.inputs) : Unmet(j) => i <= j
        IN  /\ pc = "raised"
            /\ ~run_resolved.ret
            /\ remote_calls = 0
            /\ \/ exc.type = "ValueError" /\ exc.name = skill.inputs[first].name
               \/ /\ exc.type = "RuntimeError"
                  /\ \E j \in 1..(first - 1) :
                        /\ exc.command = skill.inputs[j].command
                        /\ executed[Len(executed)].input = skill.inputs[j].name

\* C5 witness: the command of the first input ran and succeeded, and the
\* second input, required and without a value, made resolution raise
C5_Witness ==
    /\ pc = "raised" /\ exc.type = "ValueError"
    /\ Len(skill.inputs) = 2 /\ Unmet(2) /\ exc.name = skill.inputs[2].name
    /\ Len(executed) = 1 /\ ~FailedRun(executed[1])

----------------------------------------------------------------------------
(* Claims about the renderer *)

\* rendering in one pass over the template: a placeholder of an entry is
\* replaced where it stands in the template, inserted text is not looked at
RECURSIVE SinglePass(_, _)
SinglePass(p, items) ==
    IF p = <<>> THEN <<>>
    ELSE LET hits == {i \in 1..Len(items) : startswith(p, Placeholder(items[i][1]))}
         IN  IF hits = {} THEN <<Head(p)>> \o SinglePass(Tail(p), items)
             ELSE LET i == CHOOSE i \in hits : TRUE
                  IN  items[i][2] \o SinglePass(Drop(p, Len(Placeholder(items[i][1]))), items)

\* C6: render_prompt is single pass: text that enters the output as part of
\* a substituted value is never substituted again, whatever the order of
\* the entries.
C6_SinglePass ==
    rpc = "done" => rendered = SinglePass(template, rinputs)

----------------------------------------------------------------------------
(* Claims about the orchestrator *)

\* `inputs or {}`
InputsOrEmpty == IF inputs.none THEN EmptyDict ELSE inputs.d

\* C7: run binds the single declared input to the stdin text before
\* resolution exactly if the stdin text is non-empty, the provided inputs are
\* empty and the skill declares exactly one input; a bound input resolves to
\* the stdin text and its command is not run; otherwise stdin is not used.
C7_StdinShortcut ==
    pc \in {"resolve", "render", "query", "done"} \/ (pc = "raised" /\ idx > 0) =>
        LET cond == /\ ~stdin.none /\ stdin.s # <<>>
                    /\ DOMAIN InputsOrEmpty = {}
                    /\ Len(skill.inputs) = 1
        IN  /\ bound <=> cond
            /\ cond => /\ DOMAIN provided = {skill.inputs[1].name}
                       /\ provided[skill.inputs[1].name] = stdin.s
                       /\ executed = <<>>
                       /\ exc.type \notin {"ValueError", "RuntimeError"}
                       /\ run_resolved.ret =>
                            run_resolved.items = << <<skill.inputs[1].name, stdin.s>> >>
            /\ ~cond => provided = InputsOrEmpty

\* C7 witness: the only input declares a command, stdin was bound to it and
\* the run ended without running the command
C7_Witness ==
    /\ pc = "done" /\ bound
    /\ Len(skill.inputs) = 1 /\ HasCommand(skill.inputs[1])
    /\ run_resolved.items = << <<skill.inputs[1].name, <<"s">> >> >>
    /\ executed = <<>>

\* every declared input has its value in the mapping or is an optional input
\* without a value
AllInputsResolved(items) ==
    \A i \in 1..Len(skill.inputs) :
        \/ skill.inputs[i].name \in Keys(items)
        \/ /\ ~skill.inputs[i].required
           /\ skill.inputs[i].name \notin DOMAIN provided
           /\ ~HasCommand(skill.inputs[i])

\* C10: run stops at the first failure: once Not-Found,
\* Missing-Required-Input or Command-Failed (or any exception) is raised, no
\* command is run, no mapping is returned and no remote call is issued; the
\* remote call is issued at most once, and only after every declared input
\* was resolved and the prompt was rendered from the returned mapping.
C10_StopsAtFirstFailure ==
    [][/\ exc.type # "none" =>
            /\ executed' = executed
            /\ run_resolved' = run_resolved
            /\ remote_calls' = remote_calls
            /\ exc' = exc
       /\ run_resolved' # run_resolved =>
            /\ ~run_resolved.ret /\ run_resolved'.ret
            /\ AllInputsResolved(run_resolved'.items)
       /\ remote_calls' # remote_calls =>
            /\ remote_calls = 0 /\ remote_calls' = 1
            /\ run_resolved.ret
            /\ AllInputsResolved(run_resolved.items)
            /\ prompt = render_prompt(skill.prompt, run_resolved.items)
            /\ pc = "query"
       /\ exc'.type \in {"FileNotFoundError", "ValueError", "RuntimeError"} =>
            /\ ~run_resolved'.ret
            /\ remote_calls' = 0
            /\ pc' = "raised"]_vars

\* C10 witness: the first input, required and without a value, made the run
\* raise; the command of the second input was never run and nothing was sent
C10_Witness ==
    /\ pc = "raised" /\ exc.type = "ValueError"
    /\ Len(skill.inputs) = 2 /\ exc.name = skill.inputs[1].name
    /\ HasCommand(skill.inputs[2]) /\ skill.inputs[2].name \notin DOMAIN provided
    /\ executed = <<>> /\ remote_calls = 0 /\ ~run_resolved.ret

----------------------------------------------------------------------------
(* Claims about the parser *)

\* C8: parse_skill never fails: for every content it returns a Skill, with
\* defaults for what is absent or malformed.
C8_ParseNeverFails ==
    ppc = "done" => parsed.exc = "none"

\* the body of a document as the documentation defines it: what follows the
\* second delimiter, or the entire content when there is no metadata block
DocumentBody(c) == IF HasFrontmatter(c) THEN Part2(c) ELSE c

\* C9: the prompt of the parsed Skill is the document body with leading and
\* trailing whitespace removed, with and without a metadata block.
C9_PromptTrimmed ==
    (ppc = "done" /\ parsed.exc = "none") => parsed.prompt = strip(DocumentBody(content))

----------------------------------------------------------------------------
(* Claims about what run leaves alone *)

\* C11: run leaves its caller's data unchanged: no step of run changes the
\* entries of the inputs mapping the caller passed (absent, empty or
\* non-empty), also not the step that binds stdin to the single input, and
\* once the Skill is loaded no step of resolution, rendering or querying
\* changes it (its inputs and its prompt).
C11_CallerDataUnchanged ==
    [][/\ inputs' = inputs
       /\ pc # "load" => skill' = skill]_vars

\* C11 witness: the caller passed an empty dict, the stdin shortcut bound
\* the single input in run's own mapping, the run went to its end and the
\* caller's dict is still empty
C11_Witness ==
    /\ pc = "done" /\ bound
    /\ inputs = DictArg(EmptyDict)
    /\ DOMAIN provided = {skill.inputs[1].name}
    /\ ~aliased
    /\ run_resolved.items = << <<skill.inputs[1].name, stdin.s>> >>

====
